---- MODULE Spec2Model ----
(***************************************************************************)
(* A state-machine model of the company-screener service:                  *)
(*   - the HTTP handlers of src/main.py and the in-memory job store of     *)
(*     src/app/models/job.py,                                              *)
(*   - the background orchestration of                                     *)
(*     src/app/processors/report_generator.py (the one main.py schedules), *)
(*   - the data-source fan-out of src/app/core/report_generator.py,        *)
(*   - the retry loop of src/app/core/openai_api.py and the cost           *)
(*     accounting of src/app/core/llm_api_wrapper.py.                      *)
(* The asyncio event loop is single-threaded: an action is the code that   *)
(* runs between two suspension points (awaits that reach the network or a  *)
(* sleep).                                                                 *)
(***************************************************************************)
EXTENDS Integers, Sequences, FiniteSets, TLC

(***************************************************************************)
(* Bounds of the model.                                                    *)
(***************************************************************************)
MaxJobs == 2
MaxCalls == 2

(***************************************************************************)
(* Python's None and a present value: None is the empty tuple, a present   *)
(* value x is the one-element tuple <<x>>.                                 *)
(***************************************************************************)
None == <<>>
Some(x) == <<x>>

(***************************************************************************)
(* JobStatus (src/app/models/job.py).                                      *)
(***************************************************************************)
PENDING == "pending"
PROCESSING == "processing"
COMPLETED == "completed"
FAILED == "failed"
JobStatus == {PENDING, PROCESSING, COMPLETED, FAILED}

\* uuid4 values the model can draw; 0 is an id no POST /generate ever returns.
JobIds == 1..MaxJobs
QueryIds == JobIds \cup {0}

\* The request URLs (pydantic HttpUrl): the netloc as its dot-separated labels.
Urls == { [netloc |-> <<"www", "acme", "co">>, path |-> "/about"] }

\* ReportModel: the seven optional section fields.
ReportFields == {"company_overview", "product_business_model", "market_analysis",
                 "competitive_landscape", "financial_metrics",
                 "fundraising_history", "team_key_stakeholders"}

\* info_topics of WebResearcher.get_company_info.
Topics == {"company_name", "business_model", "products_services", "market", "team"}

\* The tasks list of _generate_report_sections, in its order.
SectionTasks == <<"company_overview", "product_business_model", "market_analysis">>
Sections == {SectionTasks[i] : i \in 1..Len(SectionTasks)}

\* What a topic lookup can answer.  The company-name lookup answers a name or
\* falls back to "N/A"; for the other topics the orchestrator never looks at
\* the content, so one value stands for it.
Answers(t) == IF t = "company_name" THEN {"Acme Robotics", "N/A"} ELSE {"answered"}

\* Length in characters of the answers above (Python len()).
StrLen(s) == CASE s = "Acme Robotics" -> 13
               [] s = "Acme" -> 4
               [] s = "IBM" -> 3
               [] s = "N/A" -> 3
               [] s = "" -> 0
               [] OTHER -> 0

VARIABLES
    keys_present,   \* the environment holds every API key the adapters read
    jobs_db,        \* app.models.job.jobs_db: job id -> ScreenerJob
    task,           \* per job id: where its background orchestration stands
    company_name,   \* per job id: the local company_name of the orchestration
    website_data,   \* per job id: topic -> answer of get_company_info, or "pending"
    sec,            \* per job id: section -> "idle" | "running" | "ok" | "exc"
    gather_exc,     \* per job id: the first exception the section gather saw
    resp,           \* the HTTP response of the step just taken (NoResp when
                    \* that step was not a request handler)
    report_log,     \* per job id: the first and the latest Result Container
                    \* GET /report has returned for it
    \* core/report_generator.py: one run of its generate_report_async
    core_pc,        \* where the run stands
    core_fetch,     \* per gathered fetch: "idle" | "pending" | "ok" | "exc"
    core_prefetch,  \* the serper fetch awaited before the gather
    core_results,   \* the result list the data-source gather fills
    core_raw,       \* raw_data, once merged
    core_sec,       \* per section generator: "idle" | "running" | "ok" | "exc"
    core_exc,       \* the first exception the section gather saw
    \* core/llm_api_wrapper.py and core/openai_api.py
    calls,          \* per call id: the state of one LLMAPIWrapper.get_response
    accumulated_cost, \* LLMAPIWrapper.accumulated_cost
    overlapped,     \* some call began while another call was in flight
    \* data_sources/web_searcher.py: one call of WebResearcher.get_company_info
    \* and the name resolution of the orchestrator on its result
    info_job,       \* the ScreenerJob passed to get_company_info
    info_pc,        \* where the call stands
    info_lookup,    \* per topic: what its lookup was answered and what
                    \* fetch_info returned for it
    info_result,    \* what get_company_info returned or raised
    info_name,      \* the local company_name of the orchestrator
    \* processors/market_processor.py: one call of MarketProcessor.generate
    mkt_pc,         \* where the call stands
    mkt_param,      \* per market parameter: its lookup and what fetch_param
                    \* returned or raised
    mkt_exc,        \* the exception generate ends with, if any
    mkt_report      \* the Markdown generate returned

svc_vars == <<keys_present, jobs_db, task, company_name, website_data, sec,
              gather_exc, resp, report_log>>
core_vars == <<core_pc, core_fetch, core_prefetch, core_results, core_raw,
               core_sec, core_exc>>
llm_vars == <<calls, accumulated_cost, overlapped>>
info_vars == <<info_job, info_pc, info_lookup, info_result, info_name>>
mkt_vars == <<mkt_pc, mkt_param, mkt_exc, mkt_report>>
sub_vars == <<info_vars, mkt_vars>>
\* the service variables the legacy orchestrator does not touch
svc_rest == <<keys_present, task, company_name, website_data, sec, gather_exc,
              resp, report_log>>
vars == <<svc_vars, core_vars, llm_vars, sub_vars>>

(***************************************************************************)
(* src/app/utils/url_parser.py                                             *)
(***************************************************************************)
\* domain = netloc without a leading "www."
extract_domain_from_url(url) ==
    IF Len(url.netloc) > 1 /\ Head(url.netloc) = "www"
    THEN Tail(url.netloc) ELSE url.netloc

\* str.replace(old, new) on the host labels of the model's URLs.
replace(s, old, new) ==
    CASE s = "acme-robotics" /\ old = "-" /\ new = " " -> "acme robotics"
      [] s = "my_shop" /\ old = "_" /\ new = " " -> "my shop"
      [] OTHER -> s

\* the label before the first dot of the domain, '-' and '_' turned to spaces
extract_company_name_from_url(url) ==
    replace(replace(Head(extract_domain_from_url(url)), "-", " "), "_", " ")

(***************************************************************************)
(* ScreenerJob and ReportModel values.                                     *)
(***************************************************************************)
ScreenerJob(id, status, url) ==
    [id |-> id, status |-> status, url |-> url,
     domain |-> None, report |-> None, error |-> None]

\* The Markdown a section generator returns for a company.
Text(section, name) == <<section, name>>

\* ReportModel(company_overview=results[0], product_business_model=results[1],
\*             market_analysis=results[2]); the other fields keep their default.
ReportModel(results) ==
    [f \in ReportFields |->
        IF \E i \in 1..Len(SectionTasks) : SectionTasks[i] = f
        THEN Some(results[CHOOSE i \in 1..Len(SectionTasks) : SectionTasks[i] = f])
        ELSE None]

(***************************************************************************)
(* Initial state: an empty job store, no orchestration scheduled.          *)
(***************************************************************************)
\* An HTTP response: the handler, the id asked for, the status code, and the
\* JobResponse.status or the ReportModel of the body when there is one.
Response(op, id, code, status, report) ==
    [op |-> op, id |-> id, code |-> code, status |-> status, report |-> report]

NoResp == Response("none", 0, 0, None, None)

\* The legacy orchestrator and the text generator at rest.
CoreIdle ==
    /\ core_pc = "idle"
    /\ core_fetch = <<>>
    /\ core_prefetch = "idle"
    /\ core_results = <<>>
    /\ core_raw = None
    /\ core_sec = <<>>
    /\ core_exc = None

LLMIdle ==
    /\ calls = <<>>
    /\ accumulated_cost = 0
    /\ overlapped = FALSE

InfoIdle ==
    /\ info_job = None
    /\ info_pc = "idle"
    /\ info_lookup = <<>>
    /\ info_result = None
    /\ info_name = None

MktIdle ==
    /\ mkt_pc = "idle"
    /\ mkt_param = <<>>
    /\ mkt_exc = None
    /\ mkt_report = None

SubIdle == InfoIdle /\ MktIdle

\* The service at rest: nothing stored, nothing scheduled.
SvcIdle ==
    /\ keys_present = TRUE
    /\ jobs_db = <<>>
    /\ task = [j \in JobIds |-> "none"]
    /\ company_name = [j \in JobIds |-> None]
    /\ website_data = [j \in JobIds |-> [t \in Topics |-> "idle"]]
    /\ sec = [j \in JobIds |-> [s \in Sections |-> "idle"]]
    /\ gather_exc = [j \in JobIds |-> None]
    /\ resp = NoResp
    /\ report_log = [j \in JobIds |-> <<>>]

Init ==
    /\ CoreIdle
    /\ LLMIdle
    /\ SubIdle
    /\ keys_present \in BOOLEAN
    /\ jobs_db = <<>>
    /\ task = [j \in JobIds |-> "none"]
    /\ company_name = [j \in JobIds |-> None]
    /\ website_data = [j \in JobIds |-> [t \in Topics |-> "idle"]]
    /\ sec = [j \in JobIds |-> [s \in Sections |-> "idle"]]
    /\ gather_exc = [j \in JobIds |-> None]
    /\ resp = NoResp
    /\ report_log = [j \in JobIds |-> <<>>]

\* Mutants of generate: one that hands out an id already in the store, one
\* that stores the new job as already Processing.
generate_reusing_id(id, url) ==
    /\ jobs_db' = (id :> ScreenerJob(id, PENDING, url)) @@ jobs_db
    /\ IF keys_present
       THEN /\ task' = [task EXCEPT ![id] = "queued"]
            /\ resp' = Response("generate", id, 200, Some(PENDING), None)
       ELSE /\ task' = task
            /\ resp' = Response("generate", id, 500, None, None)
    /\ UNCHANGED <<keys_present, report_log, company_name, website_data, sec, gather_exc,
                   core_vars, llm_vars, sub_vars>>

generate_started(id, url) ==
    /\ id \notin DOMAIN jobs_db
    /\ jobs_db' = (id :> ScreenerJob(id, PROCESSING, url)) @@ jobs_db
    /\ IF keys_present
       THEN /\ task' = [task EXCEPT ![id] = "queued"]
            /\ resp' = Response("generate", id, 200, Some(PENDING), None)
       ELSE /\ task' = task
            /\ resp' = Response("generate", id, 500, None, None)
    /\ UNCHANGED <<keys_present, report_log, company_name, website_data, sec, gather_exc,
                   core_vars, llm_vars, sub_vars>>

(***************************************************************************)
(* POST /generate (src/main.py).  The job is stored before the             *)
(* ReportGenerator is constructed; the constructor raises ValueError when  *)
(* an adapter finds no API key, and then no task is scheduled and the      *)
(* request ends in a server error.  The background task runs after the     *)
(* response was sent.                                                      *)
(***************************************************************************)
generate(id, url) ==
    /\ id \notin DOMAIN jobs_db
    /\ jobs_db' = (id :> ScreenerJob(id, PENDING, url)) @@ jobs_db
    /\ IF keys_present
       THEN /\ task' = [task EXCEPT ![id] = "queued"]
            /\ resp' = Response("generate", id, 200, Some(PENDING), None)
       ELSE /\ task' = task
            /\ resp' = Response("generate", id, 500, None, None)
    /\ UNCHANGED <<keys_present, report_log, company_name, website_data, sec, gather_exc,
                   core_vars, llm_vars, sub_vars>>

\* Mutant of get_job_status: a Failed job is reported as not found.
get_job_status_hiding_failed(job_id) ==
    /\ resp' = IF job_id \notin DOMAIN jobs_db \/ jobs_db[job_id].status = FAILED
               THEN Response("get_job_status", job_id, 404, None, None)
               ELSE Response("get_job_status", job_id, 200,
                             Some(jobs_db[job_id].status), None)
    /\ UNCHANGED <<keys_present, report_log, jobs_db, task, company_name, website_data,
                   sec, gather_exc, core_vars, llm_vars, sub_vars>>

(***************************************************************************)
(* GET /job/{job_id} (src/main.py).                                        *)
(***************************************************************************)
get_job_status(job_id) ==
    /\ resp' = IF job_id \notin DOMAIN jobs_db
               THEN Response("get_job_status", job_id, 404, None, None)
               ELSE Response("get_job_status", job_id, 200,
                             Some(jobs_db[job_id].status), None)
    /\ UNCHANGED <<keys_present, report_log, jobs_db, task, company_name, website_data,
                   sec, gather_exc,
                   core_vars, llm_vars, sub_vars>>

\* The returned Result Containers kept per job: the first and the latest.
log_report(log, report) ==
    IF Len(log) < 2 THEN Append(log, report) ELSE <<log[1], report>>

\* Mutant of get_report: the status test is missing.
get_report_unchecked(job_id) ==
    /\ resp' = IF job_id \notin DOMAIN jobs_db
               THEN Response("get_report", job_id, 404, None, None)
               ELSE Response("get_report", job_id, 200, None,
                             jobs_db[job_id].report)
    /\ report_log' = IF job_id \in DOMAIN jobs_db
                     THEN [report_log EXCEPT
                             ![job_id] = log_report(@, jobs_db[job_id].report)]
                     ELSE report_log
    /\ UNCHANGED <<keys_present, jobs_db, task, company_name, website_data,
                   sec, gather_exc, core_vars, llm_vars, sub_vars>>

\* Mutant of get_report: the report is handed out once and taken off the job.
get_report_consuming(job_id) ==
    /\ resp' = IF job_id \notin DOMAIN jobs_db
               THEN Response("get_report", job_id, 404, None, None)
               ELSE IF jobs_db[job_id].status # COMPLETED
               THEN Response("get_report", job_id, 400, None, None)
               ELSE Response("get_report", job_id, 200, None,
                             jobs_db[job_id].report)
    /\ IF job_id \in DOMAIN jobs_db /\ jobs_db[job_id].status = COMPLETED
       THEN /\ report_log' = [report_log EXCEPT
                                ![job_id] = log_report(@, jobs_db[job_id].report)]
            /\ jobs_db' = [jobs_db EXCEPT ![job_id].report = None]
       ELSE UNCHANGED <<report_log, jobs_db>>
    /\ UNCHANGED <<keys_present, task, company_name, website_data,
                   sec, gather_exc, core_vars, llm_vars, sub_vars>>

(***************************************************************************)
(* GET /report/{job_id} (src/main.py).                                     *)
(***************************************************************************)
get_report(job_id) ==
    /\ resp' = IF job_id \notin DOMAIN jobs_db
               THEN Response("get_report", job_id, 404, None, None)
               ELSE IF jobs_db[job_id].status # COMPLETED
               THEN Response("get_report", job_id, 400, None, None)
               ELSE Response("get_report", job_id, 200, None,
                             jobs_db[job_id].report)
    /\ report_log' = IF job_id \in DOMAIN jobs_db /\ jobs_db[job_id].status = COMPLETED
                     THEN [report_log EXCEPT
                             ![job_id] = log_report(@, jobs_db[job_id].report)]
                     ELSE report_log
    /\ UNCHANGED <<keys_present, jobs_db, task, company_name, website_data,
                   sec, gather_exc,
                   core_vars, llm_vars, sub_vars>>

(***************************************************************************)
(* ReportGenerator.generate_report_async                                   *)
(* (src/app/processors/report_generator.py), cut at its suspension points. *)
(***************************************************************************)
\* Mutant of generate_report_async: the lookups are started with the status
\* left as it was.
generate_report_async_status_late(j) ==
    /\ task[j] = "queued"
    /\ jobs_db' = [jobs_db EXCEPT
                     ![j].domain = Some(extract_domain_from_url(jobs_db[j].url))]
    /\ company_name' = [company_name EXCEPT
                          ![j] = Some(extract_company_name_from_url(jobs_db[j].url))]
    /\ website_data' = [website_data EXCEPT ![j] = [t \in Topics |-> "pending"]]
    /\ task' = [task EXCEPT ![j] = "stage1"]
    /\ resp' = NoResp
    /\ UNCHANGED <<keys_present, report_log, sec, gather_exc,
                   core_vars, llm_vars, sub_vars>>

\* Lines 49-59: the job is marked Processing, its domain is set, the name is
\* derived from the URL, and get_company_info gathers one fetch_info task per
\* topic.
generate_report_async(j) ==
    /\ task[j] = "queued"
    /\ jobs_db' = [jobs_db EXCEPT
                     ![j].status = PROCESSING,
                     ![j].domain = Some(extract_domain_from_url(jobs_db[j].url))]
    /\ company_name' = [company_name EXCEPT
                          ![j] = Some(extract_company_name_from_url(jobs_db[j].url))]
    /\ website_data' = [website_data EXCEPT ![j] = [t \in Topics |-> "pending"]]
    /\ task' = [task EXCEPT ![j] = "stage1"]
    /\ resp' = NoResp
    /\ UNCHANGED <<keys_present, report_log, sec, gather_exc,
                   core_vars, llm_vars, sub_vars>>

\* WebResearcher.get_company_info.fetch_info: one topic lookup returns.  Both
\* search_on_website and fetch_info catch every exception, so a lookup always
\* yields an answer ("N/A" when it failed).
fetch_info(j, t, answer) ==
    /\ task[j] = "stage1"
    /\ website_data[j][t] = "pending"
    /\ website_data' = [website_data EXCEPT ![j][t] = answer]
    /\ resp' = NoResp
    /\ UNCHANGED <<keys_present, report_log, jobs_db, task, company_name, sec, gather_exc,
                   core_vars, llm_vars, sub_vars>>

\* Mutant of resolve_company_name: a looked-up name of 3 characters replaces
\* the URL-derived one too.
resolve_company_name_three_chars(name, data) ==
    IF StrLen(data["company_name"]) >= 3 THEN Some(data["company_name"]) ELSE name

\* Lines 74-75: the looked-up name replaces the URL-derived one when it is
\* longer than 3 characters.
resolve_company_name(name, data) ==
    IF StrLen(data["company_name"]) > 3 THEN Some(data["company_name"]) ELSE name

\* Mutant of generate_report_sections: the section generators are started
\* without waiting for the lookups of get_company_info.
generate_report_sections_eager(j) ==
    /\ task[j] = "stage1"
    /\ company_name' = [company_name EXCEPT
                          ![j] = resolve_company_name(company_name[j], website_data[j])]
    /\ sec' = [sec EXCEPT ![j] = [s \in Sections |-> "running"]]
    /\ task' = [task EXCEPT ![j] = "stage2"]
    /\ resp' = NoResp
    /\ UNCHANGED <<keys_present, report_log, jobs_db, website_data, gather_exc,
                   core_vars, llm_vars, sub_vars>>

\* Lines 59-89 and 150-155: the gather of get_company_info returns once every
\* lookup has answered; the raw data bag is built and the three section
\* generators are gathered.
generate_report_sections(j) ==
    /\ task[j] = "stage1"
    /\ \A t \in Topics : website_data[j][t] # "pending"
    /\ company_name' = [company_name EXCEPT
                          ![j] = resolve_company_name(company_name[j], website_data[j])]
    /\ sec' = [sec EXCEPT ![j] = [s \in Sections |-> "running"]]
    /\ task' = [task EXCEPT ![j] = "stage2"]
    /\ resp' = NoResp
    /\ UNCHANGED <<keys_present, report_log, jobs_db, website_data, gather_exc,
                   core_vars, llm_vars, sub_vars>>

\* asyncio.gather(*tasks) without return_exceptions: the first exception of a
\* child is the gather's exception; later ones are dropped.
gather_first_exception(exc, s, outcome) ==
    IF outcome = "exc" /\ exc = None THEN Some(s) ELSE exc

\* Mutant of section_generate: the market generator stores what it computed
\* in the bag it was given.
section_generate_writing_bag(j, s, outcome) ==
    /\ task[j] \in {"stage2", "done"}
    /\ sec[j][s] = "running"
    /\ sec' = [sec EXCEPT ![j][s] = outcome]
    /\ gather_exc' = [gather_exc EXCEPT
                        ![j] = gather_first_exception(gather_exc[j], s, outcome)]
    /\ website_data' = IF s = "market_analysis"
                       THEN [website_data EXCEPT ![j]["market"] = "rewritten"]
                       ELSE website_data
    /\ resp' = NoResp
    /\ UNCHANGED <<keys_present, report_log, jobs_db, task, company_name,
                   core_vars, llm_vars, sub_vars>>

\* One section generator (OverviewProcessor, ProductProcessor, MarketProcessor
\* .generate) returns its Markdown or raises what the text generator raised.
\* The children of a gather are not cancelled when a sibling raises: they
\* finish even after the orchestration has ended.
section_generate(j, s, outcome) ==
    /\ task[j] \in {"stage2", "done"}
    /\ sec[j][s] = "running"
    /\ sec' = [sec EXCEPT ![j][s] = outcome]
    /\ gather_exc' = [gather_exc EXCEPT
                        ![j] = gather_first_exception(gather_exc[j], s, outcome)]
    /\ resp' = NoResp
    /\ UNCHANGED <<keys_present, report_log, jobs_db, task, company_name, website_data,
                   core_vars, llm_vars, sub_vars>>

\* Lines 77-86: the raw data bag of job j, once built.
svc_raw_data(j) ==
    [company_name |-> company_name[j], url |-> jobs_db[j].url,
     website_data |-> website_data[j]]

\* results of the section gather, in the order of the tasks list.
section_results(j) ==
    [i \in 1..Len(SectionTasks) |-> Text(SectionTasks[i], company_name[j][1])]

\* Mutants of job_completed and job_failed: the report, or the error, is not
\* written.
job_completed_without_report(job, report) == [job EXCEPT !.status = COMPLETED]
job_failed_without_error(job, e) == [job EXCEPT !.status = FAILED]

\* Mutant of job_failed: the except branch only logs.
job_failed_only_logged(job, e) == job

\* Lines 91-94: every section returned; the report and the Completed status
\* are written with no suspension point between them.
job_completed(job, report) == [job EXCEPT !.report = Some(report), !.status = COMPLETED]

\* Lines 100-107: an exception escaped the pipeline.
job_failed(job, e) == [job EXCEPT !.status = FAILED, !.error = Some(e)]

\* Mutant of generate_report_async_resume: the status is written, the task is
\* suspended, and the report or the error is written when it resumes.
generate_report_async_resume_two_steps(j) ==
    /\ task[j] = "stage2"
    /\ \/ /\ jobs_db[j].status = PROCESSING
          /\ gather_exc[j] # None
          /\ jobs_db' = [jobs_db EXCEPT ![j].status = FAILED]
          /\ task' = task
       \/ /\ jobs_db[j].status = FAILED
          /\ jobs_db' = [jobs_db EXCEPT
                           ![j] = job_failed(jobs_db[j], <<"error in", gather_exc[j][1]>>)]
          /\ task' = [task EXCEPT ![j] = "done"]
       \/ /\ jobs_db[j].status = PROCESSING
          /\ gather_exc[j] = None
          /\ \A s \in Sections : sec[j][s] = "ok"
          /\ jobs_db' = [jobs_db EXCEPT ![j].status = COMPLETED]
          /\ task' = task
       \/ /\ jobs_db[j].status = COMPLETED
          /\ jobs_db' = [jobs_db EXCEPT
                           ![j] = job_completed(jobs_db[j], ReportModel(section_results(j)))]
          /\ task' = [task EXCEPT ![j] = "done"]
    /\ resp' = NoResp
    /\ UNCHANGED <<keys_present, report_log, company_name, website_data, sec, gather_exc,
                   core_vars, llm_vars, sub_vars>>

\* The entry with the largest id of the store.
LatestJob == CHOOSE k \in DOMAIN jobs_db : \A i \in DOMAIN jobs_db : i <= k

\* Mutant of generate_report_async_resume: the outcome is written to the job
\* created last instead of the job of this run.
generate_report_async_resume_latest_job(j) ==
    /\ task[j] = "stage2"
    /\ \/ /\ gather_exc[j] # None
          /\ jobs_db' = [jobs_db EXCEPT
                           ![LatestJob] = job_failed(jobs_db[LatestJob],
                                                     <<"error in", gather_exc[j][1]>>)]
       \/ /\ gather_exc[j] = None
          /\ \A s \in Sections : sec[j][s] = "ok"
          /\ jobs_db' = [jobs_db EXCEPT
                           ![LatestJob] = job_completed(jobs_db[LatestJob],
                                                        ReportModel(section_results(j)))]
    /\ task' = [task EXCEPT ![j] = "done"]
    /\ resp' = NoResp
    /\ UNCHANGED <<keys_present, report_log, company_name, website_data, sec, gather_exc,
                   core_vars, llm_vars, sub_vars>>

\* The orchestration resumes from the section gather: with its results, or
\* with its exception in the except branch.
generate_report_async_resume(j) ==
    /\ task[j] = "stage2"
    /\ \/ /\ gather_exc[j] # None
          /\ jobs_db' = [jobs_db EXCEPT
                           ![j] = job_failed(jobs_db[j], <<"error in", gather_exc[j][1]>>)]
       \/ /\ gather_exc[j] = None
          /\ \A s \in Sections : sec[j][s] = "ok"
          /\ jobs_db' = [jobs_db EXCEPT
                           ![j] = job_completed(jobs_db[j], ReportModel(section_results(j)))]
    /\ task' = [task EXCEPT ![j] = "done"]
    /\ resp' = NoResp
    /\ UNCHANGED <<keys_present, report_log, company_name, website_data, sec, gather_exc,
                   core_vars, llm_vars, sub_vars>>

Next ==
    \/ \E id \in JobIds, url \in Urls : generate(id, url)
    \/ \E id \in QueryIds : get_job_status(id)
    \/ \E id \in QueryIds : get_report(id)
    \/ \E j \in JobIds : generate_report_async(j)
    \/ \E j \in JobIds, t \in Topics : \E a \in Answers(t) : fetch_info(j, t, a)
    \/ \E j \in JobIds : generate_report_sections(j)
    \/ \E j \in JobIds, s \in Sections : \E o \in {"ok", "exc"} : section_generate(j, s, o)
    \/ \E j \in JobIds : generate_report_async_resume(j)

Spec == Init /\ [][Next]_vars

\* The steps of the background task of job j and of the tasks it gathers.
Orchestration(j) ==
    \/ generate_report_async(j)
    \/ \E t \in Topics : \E a \in Answers(t) : fetch_info(j, t, a)
    \/ generate_report_sections(j)
    \/ \E s \in Sections : \E o \in {"ok", "exc"} : section_generate(j, s, o)
    \/ generate_report_async_resume(j)

\* The service with the scheduling of the event loop: a task that can run is
\* run, and every awaited backend call returns or raises in the end.
SpecFair == Spec /\ \A j \in JobIds : WF_vars(Orchestration(j))

(***************************************************************************)
(* src/app/core/report_generator.py: the orchestrator that fans out over   *)
(* the five data-source adapters.  One run, for a job the caller stored.   *)
(***************************************************************************)
CoreJobId == "job-core"

\* The tasks list of generate_report_async, in its order.
DataSourceTasks == <<"serper_source", "perplexity_source", "scraper_source",
                     "linkedin_source", "tracxn_source">>

\* The raw_data keys filled by _safe_extract(results, 0..4).
RawDataKeys == <<"search_data", "research_data", "website_data",
                 "linkedin_data", "funding_data">>

\* The tasks list of the legacy _generate_report_sections.
LLMSectionTasks == <<"company_overview", "product_business_model",
                     "market_analysis", "competitive_landscape",
                     "financial_metrics", "fundraising_history",
                     "team_key_stakeholders">>

SourceIdx == 1..Len(DataSourceTasks)
LLMSections == {LLMSectionTasks[i] : i \in 1..Len(LLMSectionTasks)}

\* What fetch_data of source i returns, and the exception it raises when
\* raise_for_status() meets a 4xx/5xx answer.
FetchValue(i) == [data |-> DataSourceTasks[i]]
FetchError(i) == [exception |-> "HTTPStatusError", source |-> DataSourceTasks[i]]
FetchOutcome(i, outcome) == IF outcome = "exc" THEN FetchError(i) ELSE FetchValue(i)
IsException(x) == "exception" \in DOMAIN x

\* Mutant of gather_store: outcomes are kept in completion order.
gather_store_completion_order(results, i, outcome) ==
    LET k == CHOOSE k \in DOMAIN results :
                 results[k] = None /\ \A m \in DOMAIN results : m < k => results[m] # None
    IN [results EXCEPT ![k] = Some(outcome)]

\* asyncio.gather(*tasks, return_exceptions=True): the outcome of the i-th
\* awaitable, value or exception, goes to position i of the result list.
gather_store(results, i, outcome) == [results EXCEPT ![i] = Some(outcome)]

\* ReportGenerator._safe_extract (index is 0-based, as in the source).
\* str(e) of an exception is the exception itself here.
safe_extract(results, index) ==
    IF index >= Len(results)
    THEN [error |-> "Result index out of range"]
    ELSE IF IsException(results[index + 1])
         THEN [error |-> results[index + 1]]
         ELSE results[index + 1]

\* The raw data bag of the legacy orchestrator.
raw_data(name, url, results) ==
    [k \in {"company_name", "url"} \cup {RawDataKeys[i] : i \in SourceIdx} |->
        CASE k = "company_name" -> name
          [] k = "url" -> url
          [] OTHER -> safe_extract(results,
                          (CHOOSE i \in SourceIdx : RawDataKeys[i] = k) - 1)]

\* The caller has stored a Pending job and calls generate_report_async.
InitCore ==
    /\ LLMIdle
    /\ SubIdle
    /\ keys_present = TRUE
    /\ task = [j \in JobIds |-> "none"]
    /\ company_name = [j \in JobIds |-> None]
    /\ website_data = [j \in JobIds |-> [t \in Topics |-> "idle"]]
    /\ sec = [j \in JobIds |-> [s \in Sections |-> "idle"]]
    /\ gather_exc = [j \in JobIds |-> None]
    /\ resp = NoResp
    /\ report_log = [j \in JobIds |-> <<>>]
    /\ \E url \in Urls : jobs_db = (CoreJobId :> ScreenerJob(CoreJobId, PENDING, url))
    /\ core_pc = "queued"
    /\ core_fetch = [i \in SourceIdx |-> "idle"]
    /\ core_prefetch = "idle"
    /\ core_results = [i \in SourceIdx |-> None]
    /\ core_raw = None
    /\ core_sec = [s \in LLMSections |-> "idle"]
    /\ core_exc = None

\* The job is marked Processing and the serper fetch that precedes the
\* gather is awaited.
core_generate_report_async ==
    /\ core_pc = "queued"
    /\ jobs_db' = [jobs_db EXCEPT ![CoreJobId].status = PROCESSING]
    /\ core_prefetch' = "pending"
    /\ core_pc' = "prefetch"
    /\ UNCHANGED <<svc_rest, llm_vars, sub_vars, core_fetch, core_results, core_raw,
                   core_sec, core_exc>>

\* serper_data = await self.serper_source.fetch_data(...): it returns, and the
\* five fetches are gathered; or it raises, and the exception reaches the
\* except branch of generate_report_async.
core_prefetch_done(outcome) ==
    /\ core_pc = "prefetch"
    /\ core_prefetch' = outcome
    /\ IF outcome = "ok"
       THEN /\ core_fetch' = [i \in SourceIdx |-> "pending"]
            /\ core_pc' = "gather"
            /\ UNCHANGED jobs_db
       ELSE /\ jobs_db' = [jobs_db EXCEPT
                             ![CoreJobId] = job_failed(jobs_db[CoreJobId], FetchError(1))]
            /\ core_pc' = "done"
            /\ UNCHANGED core_fetch
    /\ UNCHANGED <<svc_rest, llm_vars, sub_vars, core_results, core_raw, core_sec, core_exc>>

\* One gathered fetch_data returns or raises; the gather keeps its outcome.
core_fetch_data(i, outcome) ==
    /\ core_pc = "gather"
    /\ core_fetch[i] = "pending"
    /\ core_fetch' = [core_fetch EXCEPT ![i] = outcome]
    /\ core_results' = gather_store(core_results, i, FetchOutcome(i, outcome))
    /\ UNCHANGED <<svc_rest, llm_vars, sub_vars, jobs_db, core_pc, core_prefetch, core_raw,
                   core_sec, core_exc>>

\* Every fetch is done: the gather returns its list, raw_data is merged from
\* it and the seven section generators are gathered.
core_generate_report_sections ==
    /\ core_pc = "gather"
    /\ \A i \in SourceIdx : core_fetch[i] \in {"ok", "exc"}
    /\ core_raw' = Some(raw_data(extract_company_name_from_url(jobs_db[CoreJobId].url),
                                 jobs_db[CoreJobId].url,
                                 [i \in SourceIdx |-> core_results[i][1]]))
    /\ core_sec' = [s \in LLMSections |-> "running"]
    /\ core_pc' = "sections"
    /\ UNCHANGED <<svc_rest, llm_vars, sub_vars, jobs_db, core_fetch, core_prefetch,
                   core_results, core_exc>>

\* One LLMProcessor.generate_* returns or raises.
core_section_generate(s, outcome) ==
    /\ core_pc \in {"sections", "done"}
    /\ core_sec[s] = "running"
    /\ core_sec' = [core_sec EXCEPT ![s] = outcome]
    /\ core_exc' = gather_first_exception(core_exc, s, outcome)
    /\ UNCHANGED <<svc_rest, llm_vars, sub_vars, jobs_db, core_pc, core_fetch, core_prefetch,
                   core_results, core_raw>>

\* Report(...) of the legacy _generate_report_sections: all seven fields.
core_report ==
    [f \in ReportFields |-> Some(Text(f, core_raw[1]["company_name"]))]

\* The orchestration resumes from the section gather.
core_generate_report_async_resume ==
    /\ core_pc = "sections"
    /\ \/ /\ core_exc # None
          /\ jobs_db' = [jobs_db EXCEPT
                           ![CoreJobId] = job_failed(jobs_db[CoreJobId],
                                                     <<"error in", core_exc[1]>>)]
       \/ /\ core_exc = None
          /\ \A s \in LLMSections : core_sec[s] = "ok"
          /\ jobs_db' = [jobs_db EXCEPT
                           ![CoreJobId] = job_completed(jobs_db[CoreJobId], core_report)]
    /\ core_pc' = "done"
    /\ UNCHANGED <<svc_rest, llm_vars, sub_vars, core_fetch, core_prefetch, core_results,
                   core_raw, core_sec, core_exc>>

NextCore ==
    \/ core_generate_report_async
    \/ \E o \in {"ok", "exc"} : core_prefetch_done(o)
    \/ \E i \in SourceIdx : \E o \in {"ok", "exc"} : core_fetch_data(i, o)
    \/ core_generate_report_sections
    \/ \E s \in LLMSections : \E o \in {"ok", "exc"} : core_section_generate(s, o)
    \/ core_generate_report_async_resume

SpecCore == InitCore /\ [][NextCore]_vars

(***************************************************************************)
(* src/app/core/openai_api.py and src/app/core/llm_api_wrapper.py: calls   *)
(* of LLMAPIWrapper.get_response on one wrapper, interleaved at their      *)
(* suspension points (the backend request and the backoff sleep).          *)
(***************************************************************************)
CallIds == 1..MaxCalls

max_retries == 5

OPENAI_MODEL == "gpt-4.1-2025-04-14"

\* MODEL_COSTS, in hundredths of a dollar per million tokens.
MODEL_COSTS ==
    [m \in {"gpt-4.1-2025-04-14", "gpt-4o-2024-11-20", "gpt-4o-2024-05-13",
            "o1-mini", "o1-preview", "gpt-4o", "gpt-4o-mini",
            "gpt-4o-search-preview"} |->
        CASE m = "gpt-4.1-2025-04-14" -> [prompt |-> 200, completion |-> 800]
          [] m = "gpt-4o-2024-11-20" -> [prompt |-> 250, completion |-> 1000]
          [] m = "gpt-4o-2024-05-13" -> [prompt |-> 500, completion |-> 1500]
          [] m = "o1-mini" -> [prompt |-> 300, completion |-> 1200]
          [] m = "o1-preview" -> [prompt |-> 1500, completion |-> 6000]
          [] m = "gpt-4o" -> [prompt |-> 250, completion |-> 1000]
          [] m = "gpt-4o-mini" -> [prompt |-> 15, completion |-> 60]
          [] m = "gpt-4o-search-preview" -> [prompt |-> 250, completion |-> 1000]]

\* The model arguments callers pass: None (the default model), the search
\* model of openai_websearch.py, an "o1-" model, and an identifier that the
\* price table lacks and that shares only "gpt-4o-" with the search prefix.
ModelArgs == {None, Some("gpt-4o-search-preview"), Some("o1-mini"),
              Some("gpt-4o-realtime")}

\* The characters of a model identifier.
Chars(model) ==
     CASE model = "gpt-4.1-2025-04-14" ->
               <<"g", "p", "t", "-", "4", ".", "1", "-", "2", "0", "2", "5", "-", "0", "4", "-", "1", "4">>
          [] model = "gpt-4o-search-preview" ->
               <<"g", "p", "t", "-", "4", "o", "-", "s", "e", "a", "r", "c", "h", "-", "p", "r", "e", "v", "i", "e", "w">>
          [] model = "o1-mini" ->
               <<"o", "1", "-", "m", "i", "n", "i">>
          [] model = "gpt-4o-realtime" ->
               <<"g", "p", "t", "-", "4", "o", "-", "r", "e", "a", "l", "t", "i", "m", "e">>

\* str.startswith on character sequences.
startswith(s, prefix) ==
    /\ Len(prefix) <= Len(s)
    /\ SubSeq(s, 1, Len(prefix)) = prefix

\* Mutant of omits_system_prompt: only the "o1-" prefix is tested.
omits_system_prompt_o1_only(model) ==
    startswith(Chars(model), <<"o", "1", "-">>)

\* get_openai_response, line 84: the models that get the user prompt only.
omits_system_prompt(model) ==
    \/ startswith(Chars(model), <<"o", "1", "-">>)
    \/ startswith(Chars(model),
                  <<"g", "p", "t", "-", "4", "o", "-", "s", "e", "a", "r", "c", "h">>)

\* The arguments of openai_client.chat.completions.create, lines 86-111.
chat_completion_request(model) ==
    IF omits_system_prompt(model)
    THEN [model |-> model, messages |-> <<"user">>,
          max_tokens |-> None, temperature |-> None, seed |-> None]
    ELSE [model |-> model, messages |-> <<"system", "user">>,
          max_tokens |-> Some(4096), temperature |-> Some("0.5"),
          seed |-> Some(666)]

\* response.usage of a backend answer.
Usages == {[prompt_tokens |-> 1000, completion_tokens |-> 500],
           [prompt_tokens |-> 400, completion_tokens |-> 2000]}

\* What the backend does with one request.
Replies == {"ok", "rate_limit", "error"}

\* One call of get_response.
NewCall ==
    [pc |-> "idle", model |-> None, attempt |-> 0, backoff_seconds |-> 0,
     tries |-> 0, replies |-> <<>>, slept |-> <<>>, result |-> None,
     request |-> None, usage |-> None]

InitLLM ==
    /\ SvcIdle
    /\ CoreIdle
    /\ SubIdle
    /\ calls = [c \in CallIds |-> NewCall]
    /\ accumulated_cost = 0
    /\ overlapped = FALSE

\* Mutant of model_prices: an identifier the table lacks gets the prices of
\* the default model.
model_prices_defaulting(model) ==
    IF model \in DOMAIN MODEL_COSTS
    THEN Some(MODEL_COSTS[model])
    ELSE Some(MODEL_COSTS[OPENAI_MODEL])

\* get_response, line 25: MODEL_COSTS[model]; None stands for the KeyError.
model_prices(model) ==
    IF model \in DOMAIN MODEL_COSTS THEN Some(MODEL_COSTS[model]) ELSE None

\* Mutant of total_cost: the two prices are swapped.
total_cost_swapped(model, usage) ==
    model_prices(model)[1].completion * usage.prompt_tokens
    + model_prices(model)[1].prompt * usage.completion_tokens

\* total_cost of get_response, times 100 * 1,000,000.
total_cost(model, usage) ==
    model_prices(model)[1].prompt * usage.prompt_tokens
    + model_prices(model)[1].completion * usage.completion_tokens

\* Mutant of accumulate: the cost is assigned, not added.
accumulate_overwrite(accumulated, cost) == cost

\* get_response, line 29: self.accumulated_cost += total_cost.
accumulate(accumulated, cost) == accumulated + cost

\* Mutant of is_rate_limit: every exception is taken for a rate limit.
is_rate_limit_any_exception(reply) == reply # "ok"

\* get_openai_response, line 118: isinstance(exc, RateLimitError).
is_rate_limit(reply) == reply = "rate_limit"

\* Mutant of should_retry: off by one, the last attempt is retried as well.
should_retry_last_too(attempt) == attempt < max_retries

\* get_openai_response, line 119: a rate-limited attempt is retried unless it
\* was the last one.
should_retry(attempt) == attempt < max_retries - 1

\* Mutant of next_backoff: the backoff grows by one.
next_backoff_linear(backoff_seconds) == backoff_seconds + 1

\* get_openai_response, line 124: backoff_seconds *= 2.
next_backoff(backoff_seconds) == backoff_seconds * 2

\* The calls that are between their first request and their end.
InFlight == {c \in CallIds : calls[c].pc \in {"request", "sleep"}}

\* A call is inside time.sleep(1) (get_response, line 21): the thread of the
\* event loop is held, so no coroutine of the process takes a step until the
\* sleep is over.
Blocked == \E c \in CallIds : calls[c].pc = "time_sleep"

\* get_response is called and enters the blocking time.sleep(1) of its first
\* line.
get_response(c, model) ==
    /\ ~Blocked
    /\ calls[c].pc = "idle"
    /\ calls' = [calls EXCEPT ![c] =
                   [@ EXCEPT !.pc = "time_sleep",
                             !.model = IF model = None THEN OPENAI_MODEL ELSE model[1]]]
    /\ overlapped' = (overlapped \/ InFlight # {})
    /\ UNCHANGED <<svc_vars, core_vars, sub_vars, accumulated_cost>>

\* time.sleep(1) returns: get_response goes on to its first suspension point,
\* the first request of get_openai_response (attempt 0, backoff_seconds 1).
time_sleep_over(c) ==
    /\ calls[c].pc = "time_sleep"
    /\ calls' = [calls EXCEPT ![c] =
                   [@ EXCEPT !.pc = "request",
                             !.attempt = 0,
                             !.backoff_seconds = 1,
                             !.tries = 1,
                             !.request = Some(chat_completion_request(calls[c].model))]]
    /\ UNCHANGED <<svc_vars, core_vars, sub_vars, accumulated_cost, overlapped>>

\* The backend answers the request of call c.
\*  - a response: get_openai_response returns it and get_response accounts
\*    its cost, which raises KeyError for a model MODEL_COSTS lacks;
\*  - RateLimitError: sleep backoff_seconds when should_retry, else re-raise;
\*  - any other exception: re-raise.
\* get_response has no try: what get_openai_response raises, it raises.
backend_reply(c, reply, usage) ==
    /\ ~Blocked
    /\ calls[c].pc = "request"
    /\ LET call == [calls[c] EXCEPT !.replies = Append(@, reply)]
       IN CASE reply = "ok" /\ model_prices(call.model) # None ->
                 /\ calls' = [calls EXCEPT ![c] =
                                [call EXCEPT !.pc = "returned",
                                             !.usage = Some(usage),
                                             !.result = Some("content")]]
                 /\ accumulated_cost' =
                       accumulate(accumulated_cost, total_cost(call.model, usage))
            [] reply = "ok" /\ model_prices(call.model) = None ->
                 /\ calls' = [calls EXCEPT ![c] =
                                [call EXCEPT !.pc = "raised",
                                             !.usage = Some(usage),
                                             !.result = Some("KeyError")]]
                 /\ UNCHANGED accumulated_cost
            [] reply # "ok" /\ is_rate_limit(reply) /\ should_retry(call.attempt) ->
                 /\ calls' = [calls EXCEPT ![c] =
                                [call EXCEPT !.pc = "sleep",
                                             !.slept = Append(@, call.backoff_seconds)]]
                 /\ UNCHANGED accumulated_cost
            [] reply # "ok" /\ is_rate_limit(reply) /\ ~should_retry(call.attempt) ->
                 /\ calls' = [calls EXCEPT ![c] =
                                [call EXCEPT !.pc = "raised",
                                             !.result = Some("RateLimitError")]]
                 /\ UNCHANGED accumulated_cost
            [] OTHER ->
                 /\ calls' = [calls EXCEPT ![c] =
                                [call EXCEPT !.pc = "raised",
                                             !.result = Some("APIError")]]
                 /\ UNCHANGED accumulated_cost
    /\ UNCHANGED <<svc_vars, core_vars, sub_vars, overlapped>>

\* asyncio.sleep(backoff_seconds) is over: the backoff doubles and the loop
\* goes to its next attempt, or, with the range exhausted, falls out of the
\* loop to the RuntimeError of its last line.
backoff_wake(c) ==
    /\ ~Blocked
    /\ calls[c].pc = "sleep"
    /\ IF calls[c].attempt + 1 < max_retries
       THEN calls' = [calls EXCEPT ![c] =
                        [@ EXCEPT !.pc = "request",
                                  !.backoff_seconds = next_backoff(@),
                                  !.attempt = @ + 1,
                                  !.tries = @ + 1,
                                  !.request = Some(chat_completion_request(calls[c].model))]]
       ELSE calls' = [calls EXCEPT ![c] =
                        [@ EXCEPT !.pc = "raised",
                                  !.backoff_seconds = next_backoff(@),
                                  !.result = Some("RuntimeError")]]
    /\ UNCHANGED <<svc_vars, core_vars, sub_vars, accumulated_cost, overlapped>>

NextLLM ==
    \/ \E c \in CallIds, m \in ModelArgs : get_response(c, m)
    \/ \E c \in CallIds : time_sleep_over(c)
    \/ \E c \in CallIds, r \in Replies, u \in Usages : backend_reply(c, r, u)
    \/ \E c \in CallIds : backoff_wake(c)

SpecLLM == InitLLM /\ [][NextLLM]_vars

(***************************************************************************)
(* src/app/data_sources/openai_websearch.py: the web-answer adapter that   *)
(* WebResearcher and MarketProcessor both build, each with its own logger. *)
(***************************************************************************)
\* WebSearchResponse(content=..., link=...), and its .dict()
WebSearchResponse(content, link) == [content |-> content, link |-> link]

\* What LLMAPIWrapper.get_response hands to a lookup: the message content as
\* JSON text, a dict (content plus annotations) when the message carries
\* annotations, or an exception.
json_reply(content) == [kind |-> "json", content |-> content]
annotated_reply(content) == [kind |-> "annotated", content |-> content]
error_reply == [kind |-> "error"]

\* An exception that left a coroutine.
Raised(type) == [exception |-> type]

\* The except branch of search_on_website and of search_on_web:
\* self.logger.error(...) and then the "N/A" response.  With logger None the
\* call of .error raises AttributeError out of the handler.
search_fallback(logger) ==
    IF logger = None
    THEN Raised("AttributeError")
    ELSE WebSearchResponse("N/A", "N/A")

\* search_on_website: the prompt is built before the try (str.replace raises
\* TypeError on a website_url of None); inside the try the reply is parsed
\* as JSON text, which a dict reply fails.
search_on_website(website_url, logger, reply) ==
    IF website_url = None
    THEN Raised("TypeError")
    ELSE IF reply.kind = "json"
         THEN WebSearchResponse(reply.content, "link")
         ELSE search_fallback(logger)

\* search_on_web: as above, with the content taken out of a dict reply.
search_on_web(logger, reply) ==
    IF reply.kind \in {"json", "annotated"}
    THEN WebSearchResponse(reply.content, "link")
    ELSE search_fallback(logger)

(***************************************************************************)
(* src/app/data_sources/web_searcher.py: one call of                       *)
(* WebResearcher.get_company_info(job), followed by the name resolution    *)
(* of ReportGenerator.generate_report_async on what it returned.           *)
(***************************************************************************)
\* The URLs of the jobs: hosts with and without "www", with '-' and '_'.
InfoUrls == Urls \cup
            { [netloc |-> <<"acme-robotics", "com">>, path |-> "/"],
              [netloc |-> <<"www", "my_shop", "io">>, path |-> "/team"] }

\* The job argument: a ScreenerJob as POST /generate stores it (domain None)
\* or as generate_report_async passes it on (domain set from the URL).
InfoJobs == { [url |-> u, domain |-> d] :
                u \in InfoUrls, d \in {None} } \cup
            { [url |-> u, domain |-> Some(extract_domain_from_url(u))] :
                u \in InfoUrls }

\* The names the company-name lookup can answer.
InfoAnswers(t) ==
    IF t = "company_name"
    THEN {"Acme Robotics", "Acme", "IBM", "", "N/A"}
    ELSE {"answered"}

\* What the text generator can reply to the lookup of a topic.
LookupReplies(t) ==
    {json_reply(a) : a \in InfoAnswers(t)} \cup {annotated_reply("answered"), error_reply}

\* A lookup that has not returned yet.
Pending == [pending |-> TRUE]

\* The logger WebResearcher hands to its OpenaiWebSearch: the job's logger.
WebResearcherLogger == Some("screener_job")

\* fetch_info: an exception of search_on_website is logged and the answer is
\* the str "N/A" (not a WebSearchResponse).
info_fetch_answer(x) == IF IsException(x) THEN [str |-> "N/A"] ELSE x

\* answer.dict() of the dict comprehension: a str has no attribute dict.
answer_dict(answer) ==
    IF "str" \in DOMAIN answer THEN Raised("AttributeError") ELSE answer

\* results = {key: answer.dict() for key, answer in results_list}
info_results(lookup) ==
    IF \E t \in Topics : IsException(answer_dict(lookup[t].answer))
    THEN Raised("AttributeError")
    ELSE [t \in Topics |-> answer_dict(lookup[t].answer)]

\* The orchestrator derived the name from the URL (line 56) and awaits
\* get_company_info(job); the five fetch_info tasks are gathered.
InitInfo ==
    /\ SvcIdle
    /\ CoreIdle
    /\ LLMIdle
    /\ MktIdle
    /\ info_job \in InfoJobs
    /\ info_pc = "gather"
    /\ info_lookup = [t \in Topics |-> Pending]
    /\ info_result = None
    /\ info_name = Some(extract_company_name_from_url(info_job.url))

\* fetch_info(key, topic) returns: the lookup was answered with reply.
info_fetch_info(t, reply) ==
    /\ info_pc = "gather"
    /\ info_lookup[t] = Pending
    /\ info_lookup' = [info_lookup EXCEPT ![t] =
          [reply |-> reply,
           answer |-> info_fetch_answer(
                          search_on_website(info_job.domain, WebResearcherLogger,
                                            reply))]]
    /\ UNCHANGED <<svc_vars, core_vars, llm_vars, mkt_vars,
                   info_job, info_pc, info_result, info_name>>

\* The gather is over: the results mapping is built and returned, or building
\* it raises.
info_get_company_info_return ==
    /\ info_pc = "gather"
    /\ \A t \in Topics : info_lookup[t] # Pending
    /\ info_result' = Some(info_results(info_lookup))
    /\ info_pc' = IF IsException(info_results(info_lookup))
                  THEN "raised" ELSE "returned"
    /\ UNCHANGED <<svc_vars, core_vars, llm_vars, mkt_vars,
                   info_job, info_lookup, info_name>>

\* generate_report_async, lines 74-86: the name override and the raw data
\* bag.
info_build_raw_data ==
    /\ info_pc = "returned"
    /\ info_name' = resolve_company_name(info_name,
                        [t \in Topics |-> info_result[1][t].content])
    /\ info_pc' = "raw_data"
    /\ UNCHANGED <<svc_vars, core_vars, llm_vars, mkt_vars,
                   info_job, info_lookup, info_result>>

\* generate_report_async, lines 100-107: the exception of get_company_info
\* reaches the except branch and the job is marked Failed.
info_job_failed ==
    /\ info_pc = "raised"
    /\ info_pc' = "job_failed"
    /\ UNCHANGED <<svc_vars, core_vars, llm_vars, mkt_vars,
                   info_job, info_lookup, info_result, info_name>>

\* Lines 77-86: the raw data bag built after the name override.
info_raw_data ==
    [company_name |-> info_name, url |-> info_job.url,
     website_data |-> info_result[1]]

NextInfo ==
    \/ \E t \in Topics : \E r \in LookupReplies(t) : info_fetch_info(t, r)
    \/ info_get_company_info_return
    \/ info_build_raw_data
    \/ info_job_failed

SpecInfo == InitInfo /\ [][NextInfo]_vars

(***************************************************************************)
(* src/app/processors/market_processor.py: one call of                     *)
(* MarketProcessor.generate(data), cut at its awaits.                      *)
(***************************************************************************)
\* The keys of the parameters list of generate.
MarketParameters == {"Total Addressable Market (TAM)", "Market Segments",
                     "CAGR", "Geographic Expansion"}

\* What the text generator can reply to a parameter lookup.
MarketReplies == {json_reply("answered"), annotated_reply("answered"), error_reply}

\* MarketProcessor.__init__: OpenaiWebSearch(llm=llm, logger=None)
MarketSearcherLogger == None

\* MarketProcessor.search: answer.dict() if answer else {"content": "N/A"}
market_search(reply) == search_on_web(MarketSearcherLogger, reply)

\* fetch_param: the content of the search result, or what search raised.
market_fetch_param(reply) ==
    IF IsException(market_search(reply))
    THEN market_search(reply)
    ELSE [content |-> market_search(reply).content]

\* generate awaits the rewrite of the market description.
InitMarket ==
    /\ SvcIdle
    /\ CoreIdle
    /\ LLMIdle
    /\ InfoIdle
    /\ mkt_pc = "rewrite"
    /\ mkt_param = <<>>
    /\ mkt_exc = None
    /\ mkt_report = None

\* Line 106: _call_llm returns the rewritten description, or raises; the four
\* fetch_param coroutines are gathered.
market_rewrite(outcome) ==
    /\ mkt_pc = "rewrite"
    /\ IF outcome = "ok"
       THEN /\ mkt_pc' = "gather"
            /\ mkt_param' = [p \in MarketParameters |-> Pending]
            /\ mkt_exc' = mkt_exc
       ELSE /\ mkt_pc' = "raised"
            /\ mkt_param' = mkt_param
            /\ mkt_exc' = Some(Raised("LLMError"))
    /\ UNCHANGED <<svc_vars, core_vars, llm_vars, info_vars, mkt_report>>

\* One fetch_param coroutine ends.  Its siblings are not cancelled when the
\* gather has already raised.
market_param_done(p, reply) ==
    /\ mkt_pc \in {"gather", "raised"}
    /\ p \in DOMAIN mkt_param
    /\ mkt_param[p] = Pending
    /\ mkt_param' = [mkt_param EXCEPT ![p] =
                        [reply |-> reply, result |-> market_fetch_param(reply)]]
    /\ UNCHANGED <<svc_vars, core_vars, llm_vars, info_vars, mkt_pc, mkt_exc, mkt_report>>

\* Line 121: asyncio.gather(*tasks) raises as soon as a child has raised.
market_gather_raises ==
    /\ mkt_pc = "gather"
    /\ \E p \in MarketParameters :
          /\ mkt_param[p] # Pending
          /\ IsException(mkt_param[p].result)
          /\ mkt_exc' = Some(mkt_param[p].result)
    /\ mkt_pc' = "raised"
    /\ UNCHANGED <<svc_vars, core_vars, llm_vars, info_vars, mkt_param, mkt_report>>

\* Lines 121-131: every child returned; the structured data is built and the
\* final prompt is sent.
market_gather_returns ==
    /\ mkt_pc = "gather"
    /\ \A p \in MarketParameters :
          mkt_param[p] # Pending /\ ~IsException(mkt_param[p].result)
    /\ mkt_pc' = "compose"
    /\ UNCHANGED <<svc_vars, core_vars, llm_vars, info_vars, mkt_param, mkt_exc, mkt_report>>

\* Lines 131-132: the report of the final _call_llm is returned, or the call
\* raises.
market_compose(outcome) ==
    /\ mkt_pc = "compose"
    /\ IF outcome = "ok"
       THEN /\ mkt_pc' = "returned"
            /\ mkt_report' = Some([parameters |->
                                [p \in MarketParameters |-> mkt_param[p].result.content]])
            /\ mkt_exc' = mkt_exc
       ELSE /\ mkt_pc' = "raised"
            /\ mkt_exc' = Some(Raised("LLMError"))
            /\ mkt_report' = mkt_report
    /\ UNCHANGED <<svc_vars, core_vars, llm_vars, info_vars, mkt_param>>

NextMarket ==
    \/ \E o \in {"ok", "exc"} : market_rewrite(o)
    \/ \E p \in MarketParameters : \E r \in MarketReplies : market_param_done(p, r)
    \/ market_gather_raises
    \/ market_gather_returns
    \/ \E o \in {"ok", "exc"} : market_compose(o)

SpecMarket == InitMarket /\ [][NextMarket]_vars

(***************************************************************************)
(* Properties.                                                             *)
(***************************************************************************)
Stored == DOMAIN jobs_db

\* The status steps of the lifecycle.
StatusSteps == {<<PENDING, PROCESSING>>, <<PROCESSING, COMPLETED>>,
                <<PROCESSING, FAILED>>}

\* C1: in every step of the service (job creation, orchestration, queries),
\* a stored job stays stored and its status either stays what it is or makes
\* one of the steps Pending->Processing, Processing->Completed,
\* Processing->Failed; so a Completed or Failed job keeps its status.
C1_StatusSteps ==
    [][\A j \in Stored :
         /\ j \in DOMAIN jobs_db'
         /\ \/ jobs_db'[j].status = jobs_db[j].status
            \/ <<jobs_db[j].status, jobs_db'[j].status>> \in StatusSteps]_vars

C1_Witness ==
    \E j \in Stored, k \in Stored :
        jobs_db[j].status = COMPLETED /\ jobs_db[k].status = FAILED

\* C2: a stored job has a report exactly when its status is Completed.
C2_ReportIffCompleted ==
    \A j \in Stored : (jobs_db[j].report # None) <=> (jobs_db[j].status = COMPLETED)

C2_Witness ==
    \E j \in Stored : jobs_db[j].status = COMPLETED /\ jobs_db[j].report # None

\* C3: a stored job has an error description exactly when its status is
\* Failed.
C3_ErrorIffFailed ==
    \A j \in Stored : (jobs_db[j].error # None) <=> (jobs_db[j].status = FAILED)

C3_Witness ==
    \E j \in Stored : jobs_db[j].status = FAILED /\ jobs_db[j].error # None

\* The sections of job j that raised, and those that returned.
RaisedSections(j) == {s \in Sections : sec[j][s] = "exc"}
ReturnedSections(j) == {s \in Sections : sec[j][s] = "ok"}

\* C4: when the orchestration of a job has ended and exactly one section
\* generator raised while the others returned, the job is Completed, its
\* report holds the text of the sections that returned and a marker for the
\* one that raised.
C4_SectionFailureIsolated ==
    \A j \in Stored :
        (/\ task[j] = "done"
         /\ Cardinality(RaisedSections(j)) = 1
         /\ RaisedSections(j) \cup ReturnedSections(j) = Sections)
        => /\ jobs_db[j].status = COMPLETED
           /\ jobs_db[j].report # None
           /\ \A s \in ReturnedSections(j) :
                 jobs_db[j].report[1][s] = Some(Text(s, company_name[j][1]))
           /\ \A s \in RaisedSections(j) : jobs_db[j].report[1][s] # None

\* The case of C4: the run has ended, one section raised, the others returned.
C4_Witness ==
    \E j \in Stored :
        /\ task[j] = "done"
        /\ RaisedSections(j) = {"product_business_model"}
        /\ ReturnedSections(j) = Sections \ {"product_business_model"}

\* The fetches of the legacy run that raised: the one before the gather and
\* the gathered ones.
FailedFetches ==
    {i \in SourceIdx : core_fetch[i] = "exc"}
FailedFetchCount ==
    Cardinality(FailedFetches) + (IF core_prefetch = "exc" THEN 1 ELSE 0)

IsErrorMarker(x) == "error" \in DOMAIN x

\* C6: once the raw data bag is merged, it has one entry per gathered fetch;
\* entry i is what fetch i returned, or the error marker of what fetch i
\* raised, whatever the order the fetches finished in; and the number of
\* error markers is the number of fetches that raised.
C6_FanOutMerge ==
    core_raw # None =>
        LET raw == core_raw[1]
            entries == {RawDataKeys[i] : i \in SourceIdx}
        IN /\ entries \subseteq DOMAIN raw
           /\ Cardinality(entries) = Len(DataSourceTasks)
           /\ \A i \in SourceIdx :
                 raw[RawDataKeys[i]] =
                    IF core_fetch[i] = "exc" THEN [error |-> FetchError(i)]
                                             ELSE FetchValue(i)
           /\ Cardinality({i \in SourceIdx : IsErrorMarker(raw[RawDataKeys[i]])})
                 = Cardinality(FailedFetches)

C6_Witness ==
    /\ core_raw # None
    /\ FailedFetches = {2, 4}
    /\ IsErrorMarker(core_raw[1]["research_data"])
    /\ ~IsErrorMarker(core_raw[1]["funding_data"])

\* C7: GET /report answers with a report only for a job that is Completed
\* when it is asked, and then with that job's report, whose generated
\* sections are all present; for a stored job in any other status it answers
\* with a client error and no report.
C7_ReportOnlyWhenCompleted ==
    resp.op = "get_report" =>
        /\ resp.code = 200 =>
              /\ resp.id \in Stored
              /\ jobs_db[resp.id].status = COMPLETED
              /\ resp.report = jobs_db[resp.id].report
              /\ resp.report # None
              /\ \A s \in Sections : resp.report[1][s] # None
        /\ (resp.id \in Stored /\ jobs_db[resp.id].status # COMPLETED) =>
              /\ resp.code = 400
              /\ resp.report = None

C7_Witness ==
    /\ resp.op = "get_report"
    /\ resp.code = 200
    /\ resp.report # None
    /\ jobs_db[resp.id].status = COMPLETED

\* C8: a status query for a stored job whose orchestration has not started
\* answers Pending.
C8_PendingBeforeStart ==
    (/\ resp.op = "get_job_status"
     /\ resp.id \in Stored
     /\ task[resp.id] \in {"none", "queued"})
    => /\ resp.code = 200
       /\ resp.status = Some(PENDING)

C8_Witness ==
    /\ resp.op = "get_job_status"
    /\ resp.code = 200
    /\ resp.status = Some(PENDING)
    /\ resp.id \in Stored
    /\ task[resp.id] = "queued"

\* C9: a stored id stays stored; a status query for a stored id succeeds
\* with the job's current status, in any lifecycle state; a status or report
\* query for an id that is not stored answers 404; and neither query changes
\* the job store.
C9_StatusQuery ==
    [][/\ Stored \subseteq DOMAIN jobs_db'
       /\ resp'.op \in {"get_job_status", "get_report"} =>
            /\ jobs_db' = jobs_db
            /\ (resp'.id \in Stored /\ resp'.op = "get_job_status") =>
                   /\ resp'.code = 200
                   /\ resp'.status = Some(jobs_db[resp'.id].status)
            /\ resp'.id \notin Stored =>
                   /\ resp'.code = 404
                   /\ resp'.status = None
                   /\ resp'.report = None]_vars

C9_Witness ==
    /\ resp.op = "get_job_status"
    /\ resp.code = 200
    /\ resp.status = Some(FAILED)

\* The call was rate-limited on every one of its first n attempts.
RateLimitedFor(call, n) ==
    /\ Len(call.replies) >= n
    /\ \A i \in 1..n : call.replies[i] = "rate_limit"

\* C10: with a backend that only rate-limits or answers, a call makes at
\* most max_retries attempts; an answer to attempt k ends the call at
\* attempt k with that answer returned (get_response then returns its
\* content, for a model of the price table); and when all max_retries
\* attempts were rate-limited the call ends raising the rate-limit error.
C10_BoundedRetry ==
    \A c \in CallIds :
        LET call == calls[c] IN
        (\A i \in 1..Len(call.replies) : call.replies[i] \in {"ok", "rate_limit"}) =>
            /\ call.tries <= max_retries
            /\ Len(call.replies) <= call.tries
            /\ \A k \in 1..Len(call.replies) :
                  call.replies[k] = "ok" =>
                     /\ k = Len(call.replies)
                     /\ call.tries = k
                     /\ call.pc \in {"returned", "raised"}
                     /\ call.model \in DOMAIN MODEL_COSTS =>
                           call.pc = "returned" /\ call.result = Some("content")
                     /\ call.model \notin DOMAIN MODEL_COSTS =>
                           call.pc = "raised" /\ call.result = Some("KeyError")
            /\ RateLimitedFor(call, max_retries) =>
                  /\ call.tries = max_retries
                  /\ call.pc = "raised"
                  /\ call.result = Some("RateLimitError")

C10_Witness ==
    \E c \in CallIds, d \in CallIds :
        /\ RateLimitedFor(calls[c], max_retries)
        /\ calls[c].pc = "raised"
        /\ calls[d].pc = "returned"
        /\ Len(calls[d].replies) = 3

\* Every answer call has had so far was the rate-limit signal.
OnlyRateLimited(call) ==
    \A i \in 1..Len(call.replies) : call.replies[i] = "rate_limit"

\* C11: a call whose five attempts were all rate-limited has slept the
\* intervals 1, 2, 4, 8, 16 in that order and ends raising the rate-limit
\* error after the 5th attempt.
C11_BackoffIntervals ==
    \A c \in CallIds :
        (RateLimitedFor(calls[c], max_retries) /\ calls[c].pc = "raised") =>
            /\ calls[c].slept = <<1, 2, 4, 8, 16>>
            /\ calls[c].tries = max_retries
            /\ calls[c].result = Some("RateLimitError")

\* C11 as amended: under a backend that rate-limits every attempt the
\* intervals slept are 1, 2, 4, 8 in that order, one after each of the first
\* four attempts; the 5th attempt is followed by no sleep and the call ends
\* raising the rate-limit error.
C11_BackoffIntervalsAmended ==
    \A c \in CallIds :
        LET call == calls[c]
            n == Len(call.replies)
        IN  OnlyRateLimited(call) =>
               /\ n <= max_retries
               /\ call.slept = SubSeq(<<1, 2, 4, 8>>, 1, IF n < 4 THEN n ELSE 4)
               /\ n = max_retries =>
                     /\ call.pc = "raised"
                     /\ call.tries = max_retries
                     /\ call.result = Some("RateLimitError")

C11_Witness ==
    \E c \in CallIds :
        /\ OnlyRateLimited(calls[c])
        /\ Len(calls[c].replies) = max_retries
        /\ calls[c].slept = <<1, 2, 4, 8>>
        /\ calls[c].result = Some("RateLimitError")

\* C12: an attempt answered by an error other than the rate-limit signal is
\* the last attempt of its call, whichever attempt it is: the call has
\* ended raising that error, with no attempt and no sleep after it.
C12_OtherErrorsPropagate ==
    \A c \in CallIds :
        \A k \in 1..Len(calls[c].replies) :
            calls[c].replies[k] = "error" =>
                /\ k = Len(calls[c].replies)
                /\ calls[c].pc = "raised"
                /\ calls[c].result = Some("APIError")
                /\ calls[c].tries = k
                /\ Len(calls[c].slept) = k - 1

\* The case of C12: one call failed on its first attempt, one on a retry.
C12_Witness ==
    \E c \in CallIds, d \in CallIds :
        /\ calls[c].replies = <<"error">>
        /\ calls[d].replies = <<"rate_limit", "rate_limit", "error">>
        /\ calls[d].pc = "raised"

\* The cost of a returned call, from the price table and its usage.
CallCost(call) ==
    MODEL_COSTS[call.model].prompt * call.usage[1].prompt_tokens
    + MODEL_COSTS[call.model].completion * call.usage[1].completion_tokens

Returned == {c \in CallIds : calls[c].pc = "returned"}

\* C13: whenever the calls that have returned so far on the wrapper all cost
\* the same C, the accumulated cost is (number of returned calls) x C,
\* however the calls were interleaved.
C13_NoLostUpdate ==
    \A c \in Returned :
        (\A d \in Returned : CallCost(calls[d]) = CallCost(calls[c])) =>
            accumulated_cost = Cardinality(Returned) * CallCost(calls[c])

\* The case of C13: every call has returned with the same cost, after the
\* calls overlapped and each was retried at least once.
C13_Witness ==
    /\ Returned = CallIds
    /\ overlapped
    /\ \A c \in CallIds :
          /\ Len(calls[c].replies) >= 2
          /\ CallCost(calls[c]) = CallCost(calls[1])
    /\ accumulated_cost = MaxCalls * CallCost(calls[1])

\* C14: a step in which a call returns (its model being in the price table)
\* raises the accumulated cost by prompt tokens x prompt price + completion
\* tokens x completion price of that model (in 1/100,000,000 of the unit).
C14_CostOfCall ==
    [][\A c \in CallIds :
         (calls[c].pc # "returned" /\ calls'[c].pc = "returned") =>
            /\ calls'[c].model \in DOMAIN MODEL_COSTS
            /\ accumulated_cost' - accumulated_cost = CallCost(calls'[c])]_vars

\* The case of C14: calls with different prices and different usage returned.
C14_Witness ==
    \E c \in Returned, d \in Returned :
        /\ calls[c].model # calls[d].model
        /\ calls[c].usage # calls[d].usage
        /\ accumulated_cost = CallCost(calls[c]) + CallCost(calls[d])

\* C15: a step in which a call ends raising leaves the accumulated cost as
\* it was; and a call with a model the price table lacks never returns
\* text: when the backend answers it, it ends raising KeyError.
C15_FailureKeepsCost ==
    [][\A c \in CallIds :
         /\ (calls[c].pc # "raised" /\ calls'[c].pc = "raised") =>
               /\ accumulated_cost' = accumulated_cost
               /\ calls'[c].result \in {Some("KeyError"), Some("APIError"),
                                        Some("RateLimitError")}
         /\ (calls'[c].pc # "idle" /\ calls'[c].model \notin DOMAIN MODEL_COSTS) =>
               /\ calls'[c].pc # "returned"
               /\ calls'[c].result # Some("content")
               /\ (calls[c].pc = "request" /\ calls'[c].usage # None) =>
                     /\ calls'[c].pc = "raised"
                     /\ calls'[c].result = Some("KeyError")]_vars

\* The case of C15: after a call was accounted, one call ended on KeyError
\* and the accumulated cost is still that of the returned call.
C15_Witness ==
    \E c \in CallIds, d \in CallIds :
        /\ calls[c].pc = "returned"
        /\ calls[d].result = Some("KeyError")
        /\ Len(calls[d].replies) > Len(calls[c].replies)
        /\ accumulated_cost = CallCost(calls[c])

\* C16: the request of every attempt carries only the user message, without
\* seed, when the model identifier starts with "o1-" or "gpt-4o-search", and
\* the system message, the user message and the seed 666 otherwise.
C16_CallingConvention ==
    \A c \in CallIds :
        calls[c].request # None =>
            LET r == calls[c].request[1]
                id == Chars(calls[c].model)
            IN  /\ r.model = calls[c].model
                /\ IF \/ SubSeq(id, 1, 3) = <<"o", "1", "-">>
                      \/ SubSeq(id, 1, 13) =
                           <<"g", "p", "t", "-", "4", "o", "-",
                             "s", "e", "a", "r", "c", "h">>
                   THEN r.messages = <<"user">> /\ r.seed = None
                   ELSE r.messages = <<"system", "user">> /\ r.seed = Some(666)

\* The case of C16: a request of each convention is out.
C16_Witness ==
    \E c \in CallIds, d \in CallIds :
        /\ calls[c].request # None /\ calls[c].model = "gpt-4o-search-preview"
        /\ calls[d].request # None /\ calls[d].model = "gpt-4o-realtime"

\* The topic lookups of job j that were started, and those that answered.
StartedLookups(j) == {t \in Topics : website_data[j][t] # "idle"}
AnsweredLookups(j) == {t \in Topics : website_data[j][t] \notin {"idle", "pending"}}

\* C17: a job with a topic lookup started is stored and its status is no
\* longer Pending; in the step that starts the lookups of a job the status
\* of that job is Processing.
C17_ProcessingBeforeFetch ==
    [][\A j \in JobIds :
         /\ StartedLookups(j)' # {} =>
               /\ j \in DOMAIN jobs_db'
               /\ jobs_db'[j].status # PENDING
         /\ (StartedLookups(j) = {} /\ StartedLookups(j)' # {}) =>
               jobs_db'[j].status = PROCESSING]_vars

\* The case of C17: a Processing job with a lookup out and one answered,
\* next to a Pending job without lookups.
C17_Witness ==
    \E j \in Stored, k \in Stored :
        /\ jobs_db[j].status = PROCESSING
        /\ website_data[j]["team"] = "pending"
        /\ website_data[j]["market"] = "answered"
        /\ jobs_db[k].status = PENDING
        /\ StartedLookups(k) = {}

\* The section generators of job j that were started.
StartedSections(j) == {s \in Sections : sec[j][s] # "idle"}

\* C18: when a section generator of a job has been started, every topic
\* lookup of that job has answered and the company name of the raw data bag
\* is the one resolved from the answers (the looked-up name when longer than
\* 3 characters, else the name derived from the URL).
C18_StageOrder ==
    \A j \in JobIds :
        StartedSections(j) # {} =>
            /\ AnsweredLookups(j) = Topics
            /\ company_name[j] =
                  IF website_data[j]["company_name"] = "Acme Robotics"
                  THEN Some("Acme Robotics")
                  ELSE Some("acme")

\* The case of C18: sections run for one job, on the looked-up name, while
\* another job is still in its lookups.
C18_Witness ==
    \E j \in Stored, k \in Stored :
        /\ sec[j]["market_analysis"] = "running"
        /\ sec[j]["company_overview"] = "ok"
        /\ company_name[j] = Some("Acme Robotics")
        /\ task[k] = "stage1"
        /\ StartedSections(k) = {}

Terminal == {COMPLETED, FAILED}

\* C19: under fair scheduling, a stored job that is Processing is eventually
\* Completed or Failed; and once the run of a job has ended on an exception
\* of the pipeline the job is Failed with that exception as its error.
C19_ProcessingEnds ==
    /\ \A j \in JobIds :
          (j \in Stored /\ jobs_db[j].status = PROCESSING)
             ~> (j \in Stored /\ jobs_db[j].status \in Terminal)
    /\ [](\A j \in Stored :
            (task[j] = "done" /\ gather_exc[j] # None) =>
               /\ jobs_db[j].status = FAILED
               /\ jobs_db[j].error = Some(<<"error in", gather_exc[j][1]>>))

\* The case of C19: a run ended on the exception of a section generator.
C19_Witness ==
    \E j \in Stored :
        /\ task[j] = "done"
        /\ gather_exc[j] = Some("market_analysis")
        /\ jobs_db[j].status = FAILED
        /\ jobs_db[j].error = Some(<<"error in", "market_analysis">>)

\* C20: the Result Containers GET /report has returned for a job, the
\* first and the latest, are the same one, and it is the report the
\* Completed job still holds, whatever ran between the two queries.
C20_ReportImmutable ==
    \A j \in JobIds :
        report_log[j] # <<>> =>
            /\ j \in Stored
            /\ jobs_db[j].status = COMPLETED
            /\ jobs_db[j].report = report_log[j][1]
            /\ report_log[j][1] # None
            /\ \A i \in 1..Len(report_log[j]) : report_log[j][i] = report_log[j][1]

\* The case of C20: the latest response is the second report returned for
\* one job, in a run in which another job was created and ran to its end.
C20_Witness ==
    \E j \in Stored, k \in Stored :
        /\ Len(report_log[j]) = 2
        /\ resp = Response("get_report", j, 200, None, report_log[j][2])
        /\ report_log[k] = <<>>
        /\ jobs_db[k].status \in Terminal

\* C21: the state a status or report query answers from never holds a
\* half-written update of the job asked for: a response saying Completed
\* comes with the job holding its report and no error, a response saying
\* Failed with the job holding its error and no report, and a returned
\* report is that of a Completed job.
C21_NoPartialUpdate ==
    (resp.op \in {"get_job_status", "get_report"} /\ resp.code = 200) =>
        LET job == jobs_db[resp.id]
        IN  /\ resp.status = Some(COMPLETED) =>
                  job.report # None /\ job.error = None
            /\ resp.status = Some(FAILED) =>
                  job.error # None /\ job.report = None
            /\ resp.status = Some(PROCESSING) =>
                  job.error = None /\ job.report = None
            /\ resp.op = "get_report" =>
                  /\ job.status = COMPLETED
                  /\ resp.report = job.report
                  /\ job.report # None
                  /\ job.error = None

\* The case of C21: a status query answered Completed for one job while the
\* section gather of another job is under way.
C21_Witness ==
    \E j \in Stored, k \in Stored :
        /\ resp = Response("get_job_status", j, 200, Some(COMPLETED), None)
        /\ task[k] = "stage2"
        /\ sec[k]["company_overview"] = "ok"
        /\ sec[k]["market_analysis"] = "running"

\* C22: a step that changes the entry of a stored job is a step of that
\* job's own orchestration and not a request handler; it changes no other
\* entry and leaves the id and the url of the job as they were.
C22_OwnEntryOnly ==
    [][\A j \in Stored :
         jobs_db'[j] # jobs_db[j] =>
            /\ task'[j] # task[j]
            /\ \A k \in JobIds \ {j} : task'[k] = task[k]
            /\ \A k \in Stored \ {j} : jobs_db'[k] = jobs_db[k]
            /\ DOMAIN jobs_db' = DOMAIN jobs_db
            /\ resp' = NoResp
            /\ jobs_db'[j].id = jobs_db[j].id
            /\ jobs_db'[j].url = jobs_db[j].url]_vars

\* The case of C22: two jobs in flight, one has ended and the other is in
\* its section gather.
C22_Witness ==
    \E j \in Stored, k \in Stored :
        /\ jobs_db[j].status = FAILED
        /\ jobs_db[k].status = PROCESSING
        /\ task[k] = "stage2"
        /\ sec[j]["market_analysis"] = "running"

\* C24: every one of the seven section fields of the report of a Completed
\* job holds text.
C24_AllSectionsPresent ==
    \A j \in Stored :
        jobs_db[j].status = COMPLETED =>
            \A f \in ReportFields : jobs_db[j].report[1][f] # None

\* The case of C24: a job is Completed with its report attached.
C24_Witness ==
    \E j \in Stored :
        /\ jobs_db[j].status = COMPLETED
        /\ jobs_db[j].report[1]["market_analysis"] # None

\* C25: from the start of the section generators of a job on, no step
\* changes the raw data bag of that job, whether generators return or raise.
C25_BagUnchanged ==
    [][\A j \in Stored :
         StartedSections(j) # {} => svc_raw_data(j)' = svc_raw_data(j)]_vars

\* The case of C25: the three generators of a job have run, one raised.
C25_Witness ==
    \E j \in Stored :
        /\ sec[j]["company_overview"] = "ok"
        /\ sec[j]["product_business_model"] = "exc"
        /\ sec[j]["market_analysis"] = "ok"
        /\ svc_raw_data(j).company_name = Some("Acme Robotics")

\* C26: a stored job that is Pending has its orchestration scheduled, so
\* that it will be started.
C26_PendingIsScheduled ==
    \A j \in Stored : jobs_db[j].status = PENDING => task[j] = "queued"

\* The case of C26: POST /generate has stored a job and the construction of
\* its ReportGenerator has raised.
C26_Witness ==
    \E j \in Stored :
        /\ resp = Response("generate", j, 500, None, None)
        /\ jobs_db[j].status = PENDING

\* C27: when a job is Completed or Failed, no topic lookup and no section
\* generator of that job is still running.
C27_NothingInFlight ==
    \A j \in Stored :
        jobs_db[j].status \in Terminal =>
            /\ \A t \in Topics : website_data[j][t] # "pending"
            /\ \A s \in Sections : sec[j][s] # "running"

\* The case of C27: a job has become terminal after its lookups and section
\* generators were dispatched.
C27_Witness ==
    \E j \in Stored :
        /\ jobs_db[j].status \in Terminal
        /\ task[j] = "done"
        /\ AnsweredLookups(j) = Topics
        /\ StartedSections(j) = Sections

\* A step of call d: the backend's answer to its request is taken, or its
\* backoff sleep ends.
StepOf(d) ==
    \/ \E r \in Replies, u \in Usages : backend_reply(d, r, u)
    \/ backoff_wake(d)

\* C30: while a call waits in its pre-call delay or in a backoff delay, every
\* other call that is awaiting its backend answer or the end of its own
\* backoff can take its step.
C30_DelaysSuspend ==
    \A c \in CallIds, d \in CallIds :
        (/\ c # d
         /\ calls[c].pc \in {"time_sleep", "sleep"}
         /\ calls[d].pc \in {"request", "sleep"})
        => ENABLED StepOf(d)

\* The case of C30: one call is in its pre-call delay while another awaits
\* the backend.
C30_Witness ==
    \E c \in CallIds, d \in CallIds :
        calls[c].pc = "time_sleep" /\ calls[d].pc = "request"

\* The name the host label of each job URL stands for.
UrlName(url) ==
    CASE url.netloc = <<"www", "acme", "co">> -> "acme"
      [] url.netloc = <<"acme-robotics", "com">> -> "acme robotics"
      [] url.netloc = <<"www", "my_shop", "io">> -> "my shop"

\* The looked-up names of more than 3 characters.
LongNames == {"Acme Robotics", "Acme"}

\* C23: the company name of the raw data bag is the name the company-name
\* lookup returned when that name is longer than 3 characters, and the name
\* derived from the URL's host label otherwise; a lookup that fell back to
\* "N/A" does not replace the URL-derived name.
C23_NameResolution ==
    info_pc = "raw_data" =>
        LET looked == info_raw_data.website_data["company_name"].content
        IN  info_raw_data.company_name =
                IF looked \in LongNames THEN Some(looked)
                ELSE Some(UrlName(info_job.url))

C23_Witness ==
    /\ info_pc = "raw_data"
    /\ info_lookup["company_name"].reply = error_reply
    /\ info_result[1]["company_name"].content = "N/A"
    /\ info_name = Some("acme robotics")

\* The call of get_company_info is over: it returned or raised.
InfoOver == info_pc \in {"returned", "raw_data", "raised", "job_failed"}

\* The lookup of topic t failed: search_on_website raised before its try, the
\* text generator raised, or its reply was not JSON text.
LookupFailed(t) == info_job.domain = None \/ info_lookup[t].reply.kind # "json"

MarketOver == mkt_pc \in {"returned", "raised"}

\* C29: in the nested fan-out of the market section, a web lookup that fails
\* yields "N/A" as that parameter's content while the other parameters keep
\* their results, and the section is generated from them (unless one of its
\* own two generation calls raised).
C29_LookupFallback ==
    (MarketOver /\ mkt_exc # Some(Raised("LLMError"))) =>
        /\ mkt_pc = "returned"
        /\ \A p \in MarketParameters :
              mkt_report[1].parameters[p] =
                  IF mkt_param[p].reply = error_reply
                  THEN "N/A" ELSE mkt_param[p].reply.content

\* One lookup failed, the other three answered, and generate raised the
\* AttributeError of the failed lookup's handler.
C29_Witness ==
    /\ mkt_pc = "raised"
    /\ mkt_exc = Some(Raised("AttributeError"))
    /\ mkt_param["CAGR"] # Pending
    /\ mkt_param["CAGR"].reply = error_reply
    /\ \A p \in MarketParameters \ {"CAGR"} :
          mkt_param[p] # Pending /\ mkt_param[p].result = [content |-> "answered"]

====
